---- MODULE Spec2Model ----
(***************************************************************************)
(* Model of sqlalchemy_boilerplate/boilerplate.py: the blocking class      *)
(* Boilerplate and the non-blocking class AsyncBoilerplate.  One instance  *)
(* of each class is driven by the same sequence of calls against the same  *)
(* database behaviour, so that the two can be compared call by call.       *)
(***************************************************************************)
EXTENDS Integers, Sequences, FiniteSets, TLC

VARIABLES inst, last, gen, blk, nops, task

vars == <<inst, last, gen, blk, nops, task>>

\* ------------------------------------------------------------------------
\* Bounds of the model
\* ------------------------------------------------------------------------
\* calls made on the two instances after construction
MaxOps == 4
\* rows of a query result
MaxRows == 2

Variants == {"sync", "async"}

\* ------------------------------------------------------------------------
\* Strings: a url is a sequence of one-character strings
\* ------------------------------------------------------------------------
UpperCase == {"S", "Q", "L", "I", "T", "E", "P", "O", "G", "R", "M", "Y"}

LowerCase == {"s", "q", "l", "i", "t", "e", "p", "o", "g", "r", "m", "y",
              "h", "x", "a", "n", "c", "d", "b"}

\* str.lower() on one character
LowerChar(c) ==
    CASE c = "S" -> "s" [] c = "Q" -> "q" [] c = "L" -> "l" [] c = "I" -> "i"
      [] c = "T" -> "t" [] c = "E" -> "e" [] c = "P" -> "p" [] c = "O" -> "o"
      [] c = "G" -> "g" [] c = "R" -> "r" [] c = "M" -> "m" [] c = "Y" -> "y"
      [] OTHER -> c

\* str.lower()
Lower(s) == [i \in 1..Len(s) |-> LowerChar(s[i])]

IsAlpha(c) == c \in UpperCase \cup LowerCase

\* urllib.parse.scheme_chars: letters, digits and "+-."
SchemeChar(c) == IsAlpha(c) \/ c \in {"0", "1", "+", "-", "."}

\* s[n:] of Python
Slice(s, n) == IF n >= Len(s) THEN <<>> ELSE SubSeq(s, n + 1, Len(s))

\* s.find(":") of Python, 1-based; 0 when there is no colon
FindColon(s) ==
    IF \E i \in 1..Len(s) : s[i] = ":"
    THEN CHOOSE i \in 1..Len(s) : s[i] = ":" /\ \A j \in 1..(i - 1) : s[j] # ":"
    ELSE 0

\* urlparse(url).scheme: the text before the first colon, lower-cased, when
\* it starts with a letter and holds scheme characters only; "" otherwise
UrlScheme(url) ==
    LET i == FindColon(url)
    IN  IF /\ i > 1
           /\ IsAlpha(url[1])
           /\ \A j \in 1..(i - 1) : SchemeChar(url[j])
        THEN Lower(SubSeq(url, 1, i - 1))
        ELSE <<>>

SQLITE == <<"s", "q", "l", "i", "t", "e">>

POSTGRESQL == <<"p", "o", "s", "t", "g", "r", "e", "s", "q", "l">>

ASYNCPG_PREFIX == POSTGRESQL \o <<"+", "a", "s", "y", "n", "c", "p", "g", ":", "/", "/">>

AIOSQLITE_PREFIX == SQLITE \o <<"+", "a", "i", "o", "s", "q", "l", "i", "t", "e", ":", "/", "/">>

\* the urls of the instances that are used after construction: the
\* in-memory SQLite url of the tests, and one that is rejected
Urls ==
    { SQLITE \o <<":", "/", "/">>,
      <<"m", "y", "s", "q", "l", ":", "/", "/", "h">> }

\* the urls construction is tried on: a scheme text, a separator, a rest
UrlSchemes ==
    { SQLITE, <<"S", "Q", "L", "I", "T", "E">>, <<"S", "q", "l", "i", "t", "e">>,
      POSTGRESQL, <<"P", "o", "s", "t", "g", "r", "e", "S", "Q", "L">>,
      <<"m", "y", "s", "q", "l">>, <<"M", "y", "S", "Q", "L">>,
      SQLITE \o <<"+", "x">>, <<"1", "s">>, <<>> }

UrlSeparators == {<<":", "/", "/">>, <<":">>, <<>>}

UrlRests == {<<>>, <<"h">>, <<"/", "x", ".", "d", "b">>}

AllUrls == {s \o p \o r : s \in UrlSchemes, p \in UrlSeparators, r \in UrlRests}

\* ------------------------------------------------------------------------
\* Values and exceptions
\* ------------------------------------------------------------------------
\* Python values an attribute can hold: False, None, True, or an object
VFalse == [kind |-> "False", id |-> 0]

VNone == [kind |-> "None", id |-> 0]

VTrue == [kind |-> "True", id |-> 0]

VSession(n) == [kind |-> "Session", id |-> n]

VEngine(n) == [kind |-> "Engine", id |-> n]

VSelf(v) == [kind |-> IF v = "sync" THEN "Boilerplate" ELSE "AsyncBoilerplate", id |-> 0]

\* bool(value) of Python
Truthy(val) == val.kind \notin {"False", "None"}

\* no exception: the call returned
NoExc == [cls |-> "none", id |-> "none", cause |-> "none", about |-> "none", scheme |-> <<>>]

\* a new exception object of class cls, chained to cause; its message is
\* about the url scheme (and quotes it), about the session argument, or other
Exc(cls, cause, about, scheme) ==
    [cls |-> cls, id |-> "new", cause |-> cause, about |-> about, scheme |-> scheme]

\* the exception object the database layer raises
DbExc(cls) == [cls |-> cls, id |-> "db", cause |-> "none", about |-> "database", scheme |-> <<>>]

\* sqlalchemy.exc classes the database layer raises; all are SQLAlchemyError
DbErrorClasses == {"OperationalError", "ProgrammingError"}

IsSQLAlchemyError(e) == e.cls \in DbErrorClasses

IsOperationalError(e) == e.cls = "OperationalError"

\* a bare "raise error": the exception is raised as it came
RaiseBare(e, cause) == e

\* "raise error from error": the same exception object, its cause set to itself
RaiseFrom(e, cause) == [e EXCEPT !.cause = cause.id]

\* ------------------------------------------------------------------------
\* The instance and the outcome of a call
\* ------------------------------------------------------------------------
\* an instance before its constructor has run; sessions and engines are the
\* Session and Engine objects that exist, indexed by their identity
NewInstance ==
    [state |-> "new", url |-> <<>>, create_tables |-> FALSE, static_pool |-> FALSE,
     session |-> VNone, engine |-> VNone, sessions |-> <<>>, engines |-> <<>>]

\* a Session object: how often close() ran on it, who made it, its engine
SessionObj(by, e) == [closes |-> 0, by |-> by, engine |-> e]

\* an Engine object: how often dispose() ran on it, whether create_all ran
EngineObj == [disposals |-> 0, tables |-> FALSE]

\* the url names SQLite's in-memory database, which lives in the one
\* connection that the StaticPool of lines 64-68 and 202-206 keeps
InMemory(s) ==
    /\ s.static_pool
    /\ s.url \in {SQLITE \o <<":", "/", "/">>, AIOSQLITE_PREFIX}

\* what a call did: the instance after it, the exception it raised (NoExc
\* when it returned), the value it returned, the calls it made on the
\* collaborators in order
Result(s, exc, ret, log) == [inst |-> s, exc |-> exc, ret |-> ret, log |-> log]

Ev(name, id) == [ev |-> name, id |-> id]

\* the database layer raised an error of class cls: the last entry of the
\* log of a call that it made fail
Raised(cls) == <<Ev(cls, 0)>>

\* where in a log the database error is, 0 when there is none
ErrorIndex(log) ==
    IF \E i \in 1..Len(log) : log[i].ev \in DbErrorClasses
    THEN CHOOSE i \in 1..Len(log) : log[i].ev \in DbErrorClasses
    ELSE 0

\* the class of the database error in a log, "none" when there is none
DbErrorOf(log) == IF ErrorIndex(log) > 0 THEN log[ErrorIndex(log)].ev ELSE "none"

\* the session arguments a caller passes: the default False, True, or a
\* Session object the caller made
SessionArgs == {"False", "True", "Session"}

\* lines 76-80 and 214-218: reject True, store the session argument; the
\* engine attribute starts as `initial`
StoreSession(v, s, session, initial) ==
    IF session = "True"
    THEN Result([s EXCEPT !.state = "failed"], Exc("ValueError", "none", "session", <<>>), VNone, <<>>)
    ELSE Result([s EXCEPT !.state = "ok",
                          !.session = IF session = "Session" THEN VSession(1) ELSE VFalse,
                          !.sessions = IF session = "Session"
                                       THEN <<SessionObj("caller", 0)>> ELSE <<>>,
                          !.engine = initial],
                NoExc, VSelf(v), <<>>)

\* Boilerplate.__init__ as it would be with the postgresql branch lost
SyncInitSqliteOnly(url, create_tables, session) ==
    LET scheme == UrlScheme(url)
        s0 == [NewInstance EXCEPT !.create_tables = create_tables]
    IN  IF Lower(scheme) = SQLITE
        THEN StoreSession("sync", [s0 EXCEPT !.url = url, !.static_pool = TRUE],
                          session, VFalse)
        ELSE Result([s0 EXCEPT !.state = "failed"],
                    Exc("ValueError", "none", "scheme", scheme), VNone, <<>>)

\* Boilerplate.__init__
SyncInit(url, create_tables, session) ==
    LET scheme == UrlScheme(url)
        s0 == [NewInstance EXCEPT !.create_tables = create_tables]
    IN  IF Lower(scheme) = POSTGRESQL
        THEN StoreSession("sync", [s0 EXCEPT !.url = url], session, VFalse)
        ELSE IF Lower(scheme) = SQLITE
        THEN StoreSession("sync", [s0 EXCEPT !.url = url, !.static_pool = TRUE],
                          session, VFalse)
        ELSE Result([s0 EXCEPT !.state = "failed"],
                    Exc("ValueError", "none", "scheme", scheme), VNone, <<>>)

\* AsyncBoilerplate.__init__
AsyncInit(url, create_tables, session) ==
    LET scheme == UrlScheme(url)
        s0 == [NewInstance EXCEPT !.create_tables = create_tables]
    IN  IF Lower(scheme) = POSTGRESQL
        THEN StoreSession("async", [s0 EXCEPT !.url = ASYNCPG_PREFIX \o Slice(url, 13)],
                          session, VNone)
        ELSE IF Lower(scheme) = SQLITE
        THEN StoreSession("async", [s0 EXCEPT !.url = AIOSQLITE_PREFIX \o Slice(url, 9),
                                              !.static_pool = TRUE],
                          session, VNone)
        ELSE Result([s0 EXCEPT !.state = "failed"],
                    Exc("ValueError", "none", "scheme", scheme), VNone, <<>>)

\* ------------------------------------------------------------------------
\* connect
\* ------------------------------------------------------------------------
\* where the database layer fails during one connect, and with what class:
\* at create_engine, at create_all, or where the session factory is built.
\* Instantiating the session from the factory opens no connection and raises
\* no database error.
FaultPoints == {"none", "engine", "schema", "session"}

\* the class matters to the code at the schema step only; elsewhere one
\* class of database error stands for all
Faults ==
    {[at |-> "none", cls |-> "none"]} \cup
    [at : {"schema"}, cls : DbErrorClasses] \cup
    [at : FaultPoints \ {"none", "schema"}, cls : {"OperationalError"}]

\* self.engine = create_engine(...) / create_async_engine(...)
CreateEngine(s) ==
    [s EXCEPT !.engines = Append(@, EngineObj),
              !.engine = VEngine(Len(s.engines) + 1)]

\* create_all as it would be on an engine without the StaticPool: the
\* tables go to the in-memory database of a connection that is then closed
CreateAllOnClosedConnection(s) == s

\* BASE.metadata.create_all on the engine the instance holds
CreateAll(s) == [s EXCEPT !.engines[s.engine.id].tables = TRUE]

\* self.session = session() with the sessionmaker bound to self.engine
MakeSession(s) ==
    [s EXCEPT !.sessions = Append(@, SessionObj("connect", s.engine.id)),
              !.session = VSession(Len(s.sessions) + 1)]

\* value.close() as it would be were a session the caller supplied left
\* to its owner
CloseSessionOwnedOnly(s) ==
    IF s.session.kind = "Session"
    THEN IF s.sessions[s.session.id].by = "caller"
         THEN Result(s, NoExc, VNone, <<>>)
         ELSE Result([s EXCEPT !.sessions[s.session.id].closes = @ + 1], NoExc, VNone,
                     <<Ev("close", s.session.id)>>)
    ELSE Result(s, Exc("AttributeError", "none", "attribute", <<>>), VNone, <<>>)

\* value.close(): a Session is closed; False and None have no close()
CloseSession(s) ==
    IF s.session.kind = "Session"
    THEN Result([s EXCEPT !.sessions[s.session.id].closes = @ + 1], NoExc, VNone,
                <<Ev("close", s.session.id)>>)
    ELSE Result(s, Exc("AttributeError", "none", "attribute", <<>>), VNone, <<>>)

\* value.dispose(): an Engine is disposed, which closes the connections of
\* its pool, and with the connection of a StaticPool the in-memory database
\* it held; False and None have no dispose()
DisposeEngine(s) ==
    IF s.engine.kind = "Engine"
    THEN Result([s EXCEPT !.engines[s.engine.id].disposals = @ + 1,
                          !.engines[s.engine.id].tables = IF InMemory(s) THEN FALSE ELSE @],
                NoExc, VNone, <<Ev("dispose", s.engine.id)>>)
    ELSE Result(s, Exc("AttributeError", "none", "attribute", <<>>), VNone, <<>>)

\* the try block of Boilerplate.connect, lines 109-121
SyncConnectTry(s, fault) ==
    IF fault.at = "engine" THEN Result(s, DbExc(fault.cls), VNone, Raised(fault.cls))
    ELSE
    LET s1 == CreateEngine(s)
        l1 == <<Ev("create_engine", s1.engine.id)>>
    IN  IF s.create_tables /\ fault.at = "schema"
        THEN Result(s1, DbExc(fault.cls), VNone, l1 \o Raised(fault.cls))
        ELSE
        LET s2 == IF s.create_tables THEN CreateAll(s1) ELSE s1
            l2 == IF s.create_tables THEN l1 \o <<Ev("create_all", s1.engine.id)>> ELSE l1
        IN  IF fault.at = "session"
            THEN Result(s2, DbExc(fault.cls), VNone, l2 \o Raised(fault.cls))
            ELSE LET s3 == MakeSession(s2)
                 IN  Result(s3, NoExc, VNone, l2 \o <<Ev("new_session", s3.session.id)>>)

\* the finally block of Boilerplate.connect, lines 125-129: close whatever
\* self.session holds, an AttributeError is passed over
SyncConnectFinally(s) ==
    LET c == CloseSession(s)
    IN  IF c.exc.cls = "AttributeError" THEN Result(s, NoExc, VNone, <<>>) ELSE c

\* Boilerplate.connect as it would be were the stored session not looked at:
\* every call connects anew
SyncConnectAlways(s, force, fault) ==
    LET t == SyncConnectTry(s, fault)
        f == SyncConnectFinally(t.inst)
    IN  IF t.exc # NoExc
        THEN Result(f.inst, RaiseFrom(t.exc, t.exc), VNone, t.log \o f.log)
        ELSE Result(f.inst, NoExc, f.inst.session, t.log \o f.log)

\* Boilerplate.connect
SyncConnect(s, force, fault) ==
    IF Truthy(s.session) /\ ~force
    THEN Result(s, NoExc, s.session, <<>>)
    ELSE LET t == SyncConnectTry(s, fault)
             f == SyncConnectFinally(t.inst)
         IN  IF t.exc # NoExc
             THEN Result(f.inst,
                         IF IsSQLAlchemyError(t.exc) THEN RaiseFrom(t.exc, t.exc) ELSE t.exc,
                         VNone, t.log \o f.log)
             ELSE Result(f.inst, NoExc, f.inst.session, t.log \o f.log)

\* the schema step without its inner try: the error is raised as it came
AsyncCreateTablesPlain(s, fault) ==
    IF fault.at = "schema"
    THEN Result(s, DbExc(fault.cls), VNone, Raised(fault.cls))
    ELSE Result(CreateAll(s), NoExc, VNone, <<Ev("create_all", s.engine.id)>>)

\* the inner try of AsyncBoilerplate.connect, lines 251-257: an
\* OperationalError of the schema step becomes a RuntimeError chained to it
AsyncCreateTables(s, fault) ==
    IF fault.at = "schema"
    THEN LET e == DbExc(fault.cls)
         IN  Result(s, IF IsOperationalError(e) THEN Exc("RuntimeError", e.id, "database", <<>>) ELSE e,
                    VNone, Raised(fault.cls))
    ELSE Result(CreateAll(s), NoExc, VNone, <<Ev("create_all", s.engine.id)>>)

\* the outer try block of AsyncBoilerplate.connect, lines 247-264
AsyncConnectTry(s, fault) ==
    IF fault.at = "engine" THEN Result(s, DbExc(fault.cls), VNone, Raised(fault.cls))
    ELSE
    LET s1 == CreateEngine(s)
        l1 == <<Ev("create_engine", s1.engine.id)>>
        c  == IF s.create_tables THEN AsyncCreateTables(s1, fault)
              ELSE Result(s1, NoExc, VNone, <<>>)
    IN  IF c.exc # NoExc THEN Result(c.inst, c.exc, VNone, l1 \o c.log)
        ELSE IF fault.at = "session"
        THEN Result(c.inst, DbExc(fault.cls), VNone, l1 \o c.log \o Raised(fault.cls))
        ELSE Result(c.inst, NoExc, VNone, l1 \o c.log)

\* AsyncBoilerplate.connect
AsyncConnect(s, force, fault) ==
    IF Truthy(s.session) /\ ~force
    THEN Result(s, NoExc, s.session, <<>>)
    ELSE LET t == AsyncConnectTry(s, fault)
         IN  IF t.exc # NoExc
             THEN Result(t.inst,
                         IF IsSQLAlchemyError(t.exc) THEN RaiseFrom(t.exc, t.exc) ELSE t.exc,
                         VNone, t.log)
             ELSE LET s3 == MakeSession(t.inst)
                  IN  Result(s3, NoExc, s3.session,
                             t.log \o <<Ev("new_session", s3.session.id)>>)

\* ------------------------------------------------------------------------
\* disconnect
\* ------------------------------------------------------------------------
\* Boilerplate.disconnect
SyncDisconnect(s) ==
    LET c == IF s.session # VNone THEN CloseSession(s) ELSE Result(s, NoExc, VNone, <<>>)
    IN  IF c.exc # NoExc THEN c
        ELSE LET d == IF c.inst.engine # VNone THEN DisposeEngine(c.inst)
                      ELSE Result(c.inst, NoExc, VNone, <<>>)
             IN  Result(d.inst, d.exc, VNone, c.log \o d.log)

\* AsyncBoilerplate.disconnect
AsyncDisconnect(s) ==
    LET c == IF s.session # VNone THEN CloseSession(s) ELSE Result(s, NoExc, VNone, <<>>)
    IN  IF c.exc # NoExc THEN c
        ELSE LET d == IF c.inst.engine # VNone THEN DisposeEngine(c.inst)
                      ELSE Result(c.inst, NoExc, VNone, <<>>)
             IN  Result(d.inst, d.exc, VNone, c.log \o d.log)

\* ------------------------------------------------------------------------
\* the managed block and the call
\* ------------------------------------------------------------------------
\* Boilerplate.__enter__
SyncEnter(s, fault) ==
    LET c == SyncConnect(s, FALSE, fault)
    IN  Result(c.inst, c.exc, IF c.exc = NoExc THEN VSelf("sync") ELSE VNone,
               <<Ev("connect", 0)>> \o c.log)

\* Boilerplate.__exit__ as it would be were it to leave the instance alone
SyncExitNothing(s) == Result(s, NoExc, VNone, <<>>)

\* Boilerplate.__exit__
SyncExit(s) ==
    LET d == SyncDisconnect(s)
    IN  Result(d.inst, d.exc, VNone, <<Ev("disconnect", 0)>> \o d.log)

\* Boilerplate.__call__ as it would be were it to return the instance
\* without connecting it
SyncCallNoConnect(s, fault) == Result(s, NoExc, VSelf("sync"), <<>>)

\* Boilerplate.__call__
SyncCall(s, fault) ==
    LET c == SyncConnect(s, FALSE, fault)
    IN  Result(c.inst, c.exc, IF c.exc = NoExc THEN VSelf("sync") ELSE VNone,
               <<Ev("connect", 0)>> \o c.log)

\* AsyncBoilerplate.__aenter__
AsyncEnter(s, fault) ==
    LET c == AsyncConnect(s, FALSE, fault)
    IN  Result(c.inst, c.exc, IF c.exc = NoExc THEN VSelf("async") ELSE VNone,
               <<Ev("connect", 0)>> \o c.log)

\* AsyncBoilerplate.__aexit__
AsyncExit(s) ==
    LET d == AsyncDisconnect(s)
    IN  Result(d.inst, d.exc, VNone, <<Ev("disconnect", 0)>> \o d.log)

\* AsyncBoilerplate.__call__
AsyncCall(s, fault) ==
    LET c == AsyncConnect(s, FALSE, fault)
    IN  Result(c.inst, c.exc, IF c.exc = NoExc THEN VSelf("async") ELSE VNone,
               <<Ev("connect", 0)>> \o c.log)

\* ------------------------------------------------------------------------
\* execute: a generator over the rows of the database's result
\* ------------------------------------------------------------------------
\* the k-th row of a result
Row(k) == <<k>>

\* the results the database returns for a query: up to MaxRows rows
DbResults == {[i \in 1..k |-> Row(i)] : k \in 0..MaxRows}

\* how the database layer fails during one execute: not at all, when the
\* statement is executed, or when row `at` is fetched
ExecFaults ==
    {[in |-> "none", at |-> 0, cls |-> "none"]} \cup
    [in : {"execute"}, at : {0}, cls : {"ProgrammingError"}] \cup
    [in : {"fetch"}, at : 1..MaxRows, cls : {"OperationalError"}]

\* the faults that can happen while `rows` are streamed
ExecFaultsOf(rows) == {f \in ExecFaults : f.at <= Len(rows)}

\* no generator
NoGen ==
    [st |-> "none", rows |-> <<>>, fault |-> [in |-> "none", at |-> 0, cls |-> "none"],
     table |-> FALSE, pos |-> 0, out |-> <<>>, scope |-> "none", begins |-> 0,
     ends |-> 0, cursor |-> "none", how |-> "none"]

\* calling execute(query) makes the generator; no line of the body has run.
\* `table` tells whether the query reads a table of the declared schema
NewGen(rows, fault, table) ==
    [NoGen EXCEPT !.st = "created", !.rows = rows, !.fault = fault, !.table = table]

\* the database of the engine has no table that the query reads
NoSuchTable(s, g) == g.table /\ ~s.engines[s.engine.id].tables

\* what a step of the generator did: the generator after it, the exception
\* it raised to the consumer, the row it yielded (<<>> when none)
GenResult(g, exc, row) == [gen |-> g, exc |-> exc, row |-> row]

\* leaving the two with blocks of Boilerplate.execute, lines 158-163: the
\* result (cursor) is closed, then the transactional scope
SyncLeaveScopes(g) ==
    [g EXCEPT !.st = "done",
              !.cursor = IF @ = "open" THEN "closed" ELSE @,
              !.scope = "closed", !.ends = @ + 1]

\* "yield from rows", line 164: the next row, the end of the result, or
\* the database error of this fetch
SyncFetch(g) ==
    IF g.pos >= Len(g.rows)
    THEN GenResult([SyncLeaveScopes(g) EXCEPT !.how = "exhausted"], NoExc, <<>>)
    ELSE IF g.fault.in = "fetch" /\ g.fault.at = g.pos + 1
    THEN GenResult([SyncLeaveScopes(g) EXCEPT !.how = "error"], DbExc(g.fault.cls), <<>>)
    ELSE GenResult([g EXCEPT !.st = "suspended", !.pos = @ + 1,
                             !.out = Append(@, g.rows[g.pos + 1])],
                   NoExc, g.rows[g.pos + 1])

\* next() on the generator of Boilerplate.execute
SyncExecuteNext(s, g) ==
    IF g.st = "suspended" THEN SyncFetch(g)
    ELSE IF s.engine.kind # "Engine"
    THEN GenResult([g EXCEPT !.st = "done", !.how = "error"],
                   Exc("AttributeError", "none", "attribute", <<>>), <<>>)
    ELSE LET g1 == [g EXCEPT !.scope = "open", !.begins = @ + 1]
         IN  IF g.fault.in = "execute"
             THEN GenResult([SyncLeaveScopes(g1) EXCEPT !.how = "error"],
                            DbExc(g.fault.cls), <<>>)
             ELSE IF NoSuchTable(s, g)
             THEN GenResult([SyncLeaveScopes(g1) EXCEPT !.how = "error"],
                            DbExc("OperationalError"), <<>>)
             ELSE SyncFetch([g1 EXCEPT !.cursor = "open"])

\* close() on a generator whose body holds its scopes without with blocks:
\* nothing is released when it is closed at a yield
SyncExecuteCloseLeaks(g) == [g EXCEPT !.st = "done", !.how = "closed"]

\* close() on the generator of Boilerplate.execute, which is also what
\* dropping the last reference to it does: GeneratorExit is raised at the
\* yield and unwinds the with blocks
SyncExecuteClose(g) ==
    IF g.st = "suspended" THEN [SyncLeaveScopes(g) EXCEPT !.how = "closed"]
    ELSE [g EXCEPT !.st = "done", !.how = "closed"]

\* leaving the async with block of AsyncBoilerplate.execute, line 299: the
\* connection of the scope is closed, and with it the cursor of the stream
AsyncLeaveScope(g) ==
    [g EXCEPT !.st = "done",
              !.cursor = IF @ = "open" THEN "closed" ELSE @,
              !.scope = "closed", !.ends = @ + 1]

\* one turn of a loop that loses a row: the row after the yielded one is
\* passed over
AsyncFetchSkips(g) ==
    IF g.pos >= Len(g.rows)
    THEN GenResult([AsyncLeaveScope(g) EXCEPT !.how = "exhausted"], NoExc, <<>>)
    ELSE GenResult([g EXCEPT !.st = "suspended", !.pos = @ + 2,
                             !.out = Append(@, g.rows[g.pos + 1])],
                   NoExc, g.rows[g.pos + 1])

\* one turn of "async for row in ...", lines 300-301
AsyncFetch(g) ==
    IF g.pos >= Len(g.rows)
    THEN GenResult([AsyncLeaveScope(g) EXCEPT !.how = "exhausted"], NoExc, <<>>)
    ELSE IF g.fault.in = "fetch" /\ g.fault.at = g.pos + 1
    THEN GenResult([AsyncLeaveScope(g) EXCEPT !.how = "error"], DbExc(g.fault.cls), <<>>)
    ELSE GenResult([g EXCEPT !.st = "suspended", !.pos = @ + 1,
                             !.out = Append(@, g.rows[g.pos + 1])],
                   NoExc, g.rows[g.pos + 1])

\* __anext__() on the generator of AsyncBoilerplate.execute
AsyncExecuteNext(s, g) ==
    IF g.st = "suspended" THEN AsyncFetch(g)
    ELSE IF s.engine.kind # "Engine"
    THEN GenResult([g EXCEPT !.st = "done", !.how = "error"],
                   Exc("AttributeError", "none", "attribute", <<>>), <<>>)
    ELSE LET g1 == [g EXCEPT !.scope = "open", !.begins = @ + 1]
         IN  IF g.fault.in = "execute"
             THEN GenResult([AsyncLeaveScope(g1) EXCEPT !.how = "error"],
                            DbExc(g.fault.cls), <<>>)
             ELSE IF NoSuchTable(s, g)
             THEN GenResult([AsyncLeaveScope(g1) EXCEPT !.how = "error"],
                            DbExc("OperationalError"), <<>>)
             ELSE AsyncFetch([g1 EXCEPT !.cursor = "open"])

\* aclose() on the generator of AsyncBoilerplate.execute
AsyncExecuteClose(g) ==
    IF g.st = "suspended" THEN [AsyncLeaveScope(g) EXCEPT !.how = "closed"]
    ELSE [g EXCEPT !.st = "done", !.how = "closed"]

\* ------------------------------------------------------------------------
\* AsyncBoilerplate in tasks: connect() and execute() taken from one await
\* to the next, so that tasks interleave and a task can be cancelled where
\* it is suspended
\* ------------------------------------------------------------------------
\* the tasks that use one AsyncBoilerplate instance
Tasks == {"t1", "t2"}

\* a task that has not started. pc is where the task is: "start", "schema"
\* (suspended in connect() at lines 252-253), "connected" (connect()
\* returned), "entering", "streaming", "fetching", "exiting" (suspended in
\* execute() at the entry of the scope of line 299, at connection.stream and
\* at a row fetch of line 300, at the exit of the scope), and, the task
\* over, "done", "failed" (an exception reached it) or "cancelled". conn is
\* the engine whose scope connect() is in, at the place where the task was
\* cancelled
NoTask ==
    [pc |-> "start", conn |-> 0, g |-> NoGen, at |-> "none", exc |-> NoExc]

\* a step of a task: the instance and the task after it
TaskResult(s, k) == [inst |-> s, task |-> k]

\* AsyncBoilerplate.connect() from its call to its first await, lines
\* 240-252, or to its return when it awaits nothing
AsyncConnectStart(s, k) ==
    IF Truthy(s.session)
    THEN TaskResult(s, [k EXCEPT !.pc = "connected"])
    ELSE LET s1 == CreateEngine(s)
         IN  IF s.create_tables
             THEN TaskResult(s1, [k EXCEPT !.pc = "schema", !.conn = s1.engine.id])
             ELSE TaskResult(MakeSession(s1), [k EXCEPT !.pc = "connected"])

\* AsyncBoilerplate.connect() resumed in its schema step, lines 252-272:
\* create_all runs on the connection of the engine the scope was opened
\* on, the sessionmaker binds the engine the instance holds by then
AsyncConnectResume(s, k, fault) ==
    LET c == AsyncCreateTables([s EXCEPT !.engine = VEngine(k.conn)], fault)
        s1 == [c.inst EXCEPT !.engine = s.engine]
    IN  IF c.exc # NoExc
        THEN TaskResult(s1, [k EXCEPT !.pc = "failed", !.conn = 0,
                                      !.exc = IF IsSQLAlchemyError(c.exc)
                                              THEN RaiseFrom(c.exc, c.exc) ELSE c.exc])
        ELSE TaskResult(MakeSession(s1), [k EXCEPT !.pc = "connected", !.conn = 0])

\* the first __anext__() of execute(), lines 298-299, up to the await that
\* enters the scope of self.engine.begin()
AsyncExecuteStart(s, k, rows, fault) ==
    IF s.engine.kind # "Engine"
    THEN [k EXCEPT !.pc = "failed", !.g = [NoGen EXCEPT !.st = "done", !.how = "error"],
                   !.exc = Exc("AttributeError", "none", "attribute", <<>>)]
    ELSE [k EXCEPT !.pc = "entering", !.g = NewGen(rows, fault, FALSE)]

\* the scope of line 299 is entered; connection.stream(query) is awaited
AsyncScopeEntered(k) ==
    [k EXCEPT !.pc = "streaming", !.g.scope = "open", !.g.begins = @ + 1]

\* an exception raised inside a block that holds its connection without
\* "async with": the generator ends and nothing is released
AsyncThrowLeaks(k, exc, how) ==
    [k EXCEPT !.pc = IF exc = NoExc THEN "done"
                     ELSE IF exc.cls = "CancelledError" THEN "cancelled"
                     ELSE "failed",
              !.exc = exc, !.g.how = how, !.g.st = "done"]

\* an exception raised inside the async with block of line 299: the block
\* is left through the exit of its scope, which is awaited
AsyncThrow(k, exc, how) == [k EXCEPT !.pc = "exiting", !.exc = exc, !.g.how = how]

\* connection.stream(query) returns the result, line 300, or raises; the
\* first row is awaited
AsyncStreamed(k) ==
    IF k.g.fault.in = "execute"
    THEN AsyncThrow(k, DbExc(k.g.fault.cls), "error")
    ELSE [k EXCEPT !.pc = "fetching", !.g.cursor = "open"]

\* a row fetch of "async for" returns, lines 300-301: the row is yielded to
\* the consumer, whose body awaits nothing, and the next row is awaited;
\* or the result is at its end, or the fetch raises
AsyncRowFetched(k) ==
    IF k.g.pos >= Len(k.g.rows)
    THEN AsyncThrow(k, NoExc, "exhausted")
    ELSE IF k.g.fault.in = "fetch" /\ k.g.fault.at = k.g.pos + 1
    THEN AsyncThrow(k, DbExc(k.g.fault.cls), "error")
    ELSE [k EXCEPT !.g.pos = @ + 1, !.g.out = Append(@, k.g.rows[k.g.pos + 1])]

\* the exit of the scope returns: connection and cursor are released, the
\* generator ends and the consumer with it
AsyncScopeExited(k) ==
    [k EXCEPT !.pc = IF k.exc = NoExc THEN "done"
                     ELSE IF k.exc.cls = "CancelledError" THEN "cancelled"
                     ELSE "failed",
              !.g = AsyncLeaveScope(k.g)]

\* asyncio.CancelledError, which no handler of the module catches
Cancelled == Exc("CancelledError", "none", "cancel", <<>>)

\* the places where a task is suspended
Suspended == {"schema", "entering", "streaming", "fetching", "exiting"}

\* the task is cancelled where it is suspended: CancelledError is raised at
\* that await. In connect() it leaves the scope of the schema step and
\* passes both handlers; at the entry of execute()'s scope there is no scope
\* yet; inside the scope it leaves the async with block; at the exit of the
\* scope the release, which the engine shields from cancellation, is done
AsyncCancel(k) ==
    LET c == [k EXCEPT !.at = k.pc]
    IN  CASE k.pc = "schema" ->
               [c EXCEPT !.pc = "cancelled", !.exc = Cancelled]
          [] k.pc = "entering" ->
               [c EXCEPT !.pc = "cancelled", !.exc = Cancelled,
                         !.g.st = "done", !.g.how = "cancelled"]
          [] k.pc \in {"streaming", "fetching"} ->
               AsyncThrow(c, Cancelled, "cancelled")
          [] k.pc = "exiting" ->
               AsyncScopeExited([c EXCEPT !.exc = Cancelled, !.g.how = "cancelled"])

\* ------------------------------------------------------------------------
\* The state machine: the same call is made on the instance of each class
\* ------------------------------------------------------------------------
\* what the caller saw of the instance before a call
Pre(s) ==
    [session |-> s.session, engine |-> s.engine,
     nsessions |-> Len(s.sessions), nengines |-> Len(s.engines)]

\* the record of the last call on an instance
Called(op, force, s, r) ==
    [op |-> op, force |-> force, exc |-> r.exc, ret |-> r.ret, row |-> <<>>,
     log |-> r.log, pre |-> Pre(s), url |-> <<>>, session |-> "none"]

\* the record of a construction, with the url and session arguments
Constructed(url, session, s, r) ==
    [Called("init", FALSE, s, r) EXCEPT !.url = url, !.session = session]

\* the record of the last step of a generator
Stepped(op, s, r) ==
    [op |-> op, force |-> FALSE, exc |-> r.exc, ret |-> VNone, row |-> r.row,
     log |-> <<>>, pre |-> Pre(s), url |-> <<>>, session |-> "none"]

NoCall ==
    [op |-> "none", force |-> FALSE, exc |-> NoExc, ret |-> VNone, row |-> <<>>,
     log |-> <<>>, pre |-> Pre(NewInstance), url |-> <<>>, session |-> "none"]

\* a managed block: entered or not, the connect() calls its entry made, the
\* disconnect() calls its exit made, whether its body raised
NoBlock == [st |-> "out", enters |-> 0, exits |-> 0, raised |-> FALSE]

\* the number of events named name in a log
Count(log, name) == Cardinality({i \in 1..Len(log) : log[i].ev = name})

InitOf(v, url, create_tables, session) ==
    IF v = "sync" THEN SyncInit(url, create_tables, session)
    ELSE AsyncInit(url, create_tables, session)

ConnectOf(v, s, force, fault) ==
    IF v = "sync" THEN SyncConnect(s, force, fault) ELSE AsyncConnect(s, force, fault)

DisconnectOf(v, s) == IF v = "sync" THEN SyncDisconnect(s) ELSE AsyncDisconnect(s)

CallOf(v, s, fault) == IF v = "sync" THEN SyncCall(s, fault) ELSE AsyncCall(s, fault)

EnterOf(v, s, fault) == IF v = "sync" THEN SyncEnter(s, fault) ELSE AsyncEnter(s, fault)

ExitOf(v, s) == IF v = "sync" THEN SyncExit(s) ELSE AsyncExit(s)

NextOf(v, s, g) == IF v = "sync" THEN SyncExecuteNext(s, g) ELSE AsyncExecuteNext(s, g)

CloseOf(v, g) == IF v = "sync" THEN SyncExecuteClose(g) ELSE AsyncExecuteClose(g)

Alive == \A v \in Variants : inst[v].state = "ok"

Budget == nops < MaxOps

Init ==
    /\ inst = [v \in Variants |-> NewInstance]
    /\ last = [v \in Variants |-> NoCall]
    /\ gen = [v \in Variants |-> NoGen]
    /\ blk = [v \in Variants |-> NoBlock]
    /\ nops = 0
    /\ task = [t \in Tasks |-> NoTask]

\* Boilerplate(url, create_tables=..., session=...) and the same for
\* AsyncBoilerplate
Construct ==
    /\ \A v \in Variants : inst[v].state = "new"
    /\ \E url \in Urls, create_tables \in BOOLEAN, session \in SessionArgs :
         /\ inst' = [v \in Variants |-> InitOf(v, url, create_tables, session).inst]
         /\ last' = [v \in Variants |->
                       Constructed(url, session, inst[v],
                                   InitOf(v, url, create_tables, session))]
    /\ UNCHANGED <<gen, blk, nops, task>>

\* connect(force)
Connect ==
    /\ Alive /\ Budget
    /\ \E force \in BOOLEAN, fault \in Faults :
         /\ inst' = [v \in Variants |-> ConnectOf(v, inst[v], force, fault).inst]
         /\ last' = [v \in Variants |->
                       Called("connect", force, inst[v],
                              ConnectOf(v, inst[v], force, fault))]
    /\ nops' = nops + 1
    /\ UNCHANGED <<gen, blk, task>>

\* disconnect()
Disconnect ==
    /\ Alive /\ Budget
    /\ inst' = [v \in Variants |-> DisconnectOf(v, inst[v]).inst]
    /\ last' = [v \in Variants |->
                  Called("disconnect", FALSE, inst[v], DisconnectOf(v, inst[v]))]
    /\ nops' = nops + 1
    /\ UNCHANGED <<gen, blk, task>>

\* instance()
Call ==
    /\ Alive /\ Budget
    /\ \E fault \in Faults :
         /\ inst' = [v \in Variants |-> CallOf(v, inst[v], fault).inst]
         /\ last' = [v \in Variants |->
                       Called("call", FALSE, inst[v], CallOf(v, inst[v], fault))]
    /\ nops' = nops + 1
    /\ UNCHANGED <<gen, blk, task>>

\* "with instance as database:" reaches the body when __enter__ returns;
\* when __enter__ raises, the block is not entered and __exit__ never runs
WithEnter ==
    /\ Alive /\ Budget
    /\ \A v \in Variants : blk[v].st # "in"
    /\ \E fault \in Faults :
         /\ inst' = [v \in Variants |-> EnterOf(v, inst[v], fault).inst]
         /\ last' = [v \in Variants |->
                       Called("enter", FALSE, inst[v], EnterOf(v, inst[v], fault))]
         /\ blk' = [v \in Variants |->
                      LET r == EnterOf(v, inst[v], fault)
                      IN  IF r.exc = NoExc
                          THEN [st |-> "in", enters |-> Count(r.log, "connect"),
                                exits |-> 0, raised |-> FALSE]
                          ELSE NoBlock]
    /\ nops' = nops + 1
    /\ UNCHANGED <<gen, task>>

\* the body of the block ends, normally or by raising: __exit__ runs
WithExit ==
    /\ Alive /\ Budget
    /\ \E v \in Variants : blk[v].st = "in"
    /\ \E raised \in BOOLEAN :
         /\ inst' = [v \in Variants |->
                       IF blk[v].st = "in" THEN ExitOf(v, inst[v]).inst ELSE inst[v]]
         /\ last' = [v \in Variants |->
                       IF blk[v].st = "in"
                       THEN Called("exit", FALSE, inst[v], ExitOf(v, inst[v]))
                       ELSE last[v]]
         /\ blk' = [v \in Variants |->
                      IF blk[v].st = "in"
                      THEN [blk[v] EXCEPT
                              !.st = "exited",
                              !.exits = @ + Count(ExitOf(v, inst[v]).log, "disconnect"),
                              !.raised = raised]
                      ELSE blk[v]]
    /\ nops' = nops + 1
    /\ UNCHANGED <<gen, task>>

\* execute(query): the generator object is made, its body has not started.
\* The database faults are drawn for the queries that read no table
Execute ==
    /\ Alive /\ Budget
    /\ \A v \in Variants : gen[v].st # "suspended"
    /\ \E rows \in DbResults, table \in BOOLEAN :
         \E fault \in ExecFaultsOf(rows) :
           /\ table => fault.in = "none"
           /\ gen' = [v \in Variants |-> NewGen(rows, fault, table)]
    /\ last' = [v \in Variants |->
                  Called("execute", FALSE, inst[v], Result(inst[v], NoExc, VNone, <<>>))]
    /\ nops' = nops + 1
    /\ UNCHANGED <<inst, blk, task>>

GenLive(g) == g.st \in {"created", "suspended"}

\* the consumer asks the generator for the next row
Next_ ==
    /\ Alive /\ Budget
    /\ \E v \in Variants : GenLive(gen[v])
    /\ gen' = [v \in Variants |->
                 IF GenLive(gen[v]) THEN NextOf(v, inst[v], gen[v]).gen ELSE gen[v]]
    /\ last' = [v \in Variants |->
                  IF GenLive(gen[v])
                  THEN Stepped("next", inst[v], NextOf(v, inst[v], gen[v]))
                  ELSE last[v]]
    /\ nops' = nops + 1
    /\ UNCHANGED <<inst, blk, task>>

\* the consumer stops before the end and the generator is closed
Close ==
    /\ Alive /\ Budget
    /\ \E v \in Variants : GenLive(gen[v])
    /\ gen' = [v \in Variants |->
                 IF GenLive(gen[v]) THEN CloseOf(v, gen[v]) ELSE gen[v]]
    /\ last' = [v \in Variants |->
                  IF GenLive(gen[v])
                  THEN Stepped("close", inst[v], GenResult(gen[v], NoExc, <<>>))
                  ELSE last[v]]
    /\ nops' = nops + 1
    /\ UNCHANGED <<inst, blk, task>>

Next ==
    \/ Construct
    \/ Connect
    \/ Disconnect
    \/ Call
    \/ WithEnter
    \/ WithExit
    \/ Execute
    \/ Next_
    \/ Close

Spec == Init /\ [][Next]_vars

\* construction alone, on every url of AllUrls
ConstructAny ==
    /\ \A v \in Variants : inst[v].state = "new"
    /\ \E url \in AllUrls, create_tables \in BOOLEAN, session \in SessionArgs :
         /\ inst' = [v \in Variants |-> InitOf(v, url, create_tables, session).inst]
         /\ last' = [v \in Variants |->
                       Constructed(url, session, inst[v],
                                   InitOf(v, url, create_tables, session))]
    /\ UNCHANGED <<gen, blk, nops, task>>

SpecInit == Init /\ [][ConstructAny]_vars

\* ------------------------------------------------------------------------
\* The state machine of the tasks on one AsyncBoilerplate instance
\* ------------------------------------------------------------------------
\* the instance is constructed on the in-memory database
InitAsync ==
    /\ \E create_tables \in BOOLEAN, session \in {"False", "Session"} :
         inst = [v \in Variants |->
                   InitOf(v, SQLITE \o <<":", "/", "/">>, create_tables, session).inst]
    /\ last = [v \in Variants |-> NoCall]
    /\ gen = [v \in Variants |-> NoGen]
    /\ blk = [v \in Variants |-> NoBlock]
    /\ nops = 0
    /\ task = [t \in Tasks |-> NoTask]

\* the step of task t leaves the instance as s and the task as k
TaskStep(t, s, k) ==
    /\ inst' = [inst EXCEPT !["async"] = s]
    /\ task' = [task EXCEPT ![t] = k]
    /\ UNCHANGED <<last, gen, blk, nops>>

\* task t calls connect()
TaskConnect(t) ==
    /\ task[t].pc = "start"
    /\ LET r == AsyncConnectStart(inst["async"], task[t])
       IN  TaskStep(t, r.inst, r.task)

\* task t is resumed in the schema step of connect()
TaskConnectResume(t) ==
    /\ task[t].pc = "schema"
    /\ \E fault \in {f \in Faults : f.at \in {"none", "schema"}} :
         LET r == AsyncConnectResume(inst["async"], task[t], fault)
         IN  TaskStep(t, r.inst, r.task)

\* task t starts to consume execute(query)
TaskExecute(t) ==
    /\ task[t].pc = "connected"
    /\ \E rows \in DbResults :
         \E fault \in ExecFaultsOf(rows) :
           TaskStep(t, inst["async"], AsyncExecuteStart(inst["async"], task[t], rows, fault))

\* the await task t is suspended at in execute() returns
TaskResume(t) ==
    \/ /\ task[t].pc = "entering"
       /\ TaskStep(t, inst["async"], AsyncScopeEntered(task[t]))
    \/ /\ task[t].pc = "streaming"
       /\ TaskStep(t, inst["async"], AsyncStreamed(task[t]))
    \/ /\ task[t].pc = "fetching"
       /\ TaskStep(t, inst["async"], AsyncRowFetched(task[t]))
    \/ /\ task[t].pc = "exiting"
       /\ TaskStep(t, inst["async"], AsyncScopeExited(task[t]))

\* task t is cancelled while it is suspended
TaskCancel(t) ==
    /\ task[t].pc \in Suspended
    /\ TaskStep(t, inst["async"], AsyncCancel(task[t]))

NextAsync ==
    \E t \in Tasks :
      \/ TaskConnect(t)
      \/ TaskConnectResume(t)
      \/ TaskExecute(t)
      \/ TaskResume(t)
      \/ TaskCancel(t)

SpecAsync == InitAsync /\ [][NextAsync]_vars

\* ------------------------------------------------------------------------
\* Properties
\* ------------------------------------------------------------------------
\* C1: in both variants disconnect() never raises, whether connect() was
\* never called, was called, or disconnect() was already called before.
C1_DisconnectNeverRaises ==
    \A v \in Variants : last[v].op = "disconnect" => last[v].exc = NoExc

\* a session handle existed when the last call was made
HadSession(v) == Truthy(last[v].pre.session)

\* C2: in both variants, once a session exists, connect() without force
\* returns the stored session handle and creates no engine and no session;
\* connect(force=True) that returns has created a new engine and stores and
\* returns a session handle different from the previous one.
C2_ConnectIdempotentUnlessForced ==
    \A v \in Variants :
      (last[v].op = "connect" /\ HadSession(v)) =>
        /\ ~last[v].force =>
             /\ last[v].exc = NoExc
             /\ last[v].ret = last[v].pre.session
             /\ inst[v].session = last[v].pre.session
             /\ inst[v].engine = last[v].pre.engine
             /\ Len(inst[v].engines) = last[v].pre.nengines
             /\ Len(inst[v].sessions) = last[v].pre.nsessions
             /\ last[v].log = <<>>
        /\ (last[v].force /\ last[v].exc = NoExc) =>
             /\ Len(inst[v].engines) = last[v].pre.nengines + 1
             /\ inst[v].engine = VEngine(Len(inst[v].engines))
             /\ inst[v].engine # last[v].pre.engine
             /\ Len(inst[v].sessions) = last[v].pre.nsessions + 1
             /\ inst[v].session = VSession(Len(inst[v].sessions))
             /\ last[v].ret = inst[v].session
             /\ last[v].ret # last[v].pre.session

\* both variants have reconnected by force over a session that connect()
\* had made, and the call before could be told apart from it
C2_Witness ==
    \A v \in Variants :
      /\ last[v].op = "connect" /\ last[v].force /\ last[v].exc = NoExc
      /\ last[v].pre.session.kind = "Session"
      /\ last[v].pre.nengines = 1

\* C3: in both variants entering a managed block performs connect() once,
\* and once the block has been entered its exit performs disconnect()
\* exactly once, whether the body ended normally or raised.
C3_BlockDisconnectsOnce ==
    \A v \in Variants :
      /\ blk[v].st = "in" => (blk[v].enters = 1 /\ blk[v].exits = 0)
      /\ blk[v].st = "exited" => (blk[v].enters = 1 /\ blk[v].exits = 1)
      /\ last[v].op = "exit" =>
           (blk[v].st = "exited" /\ Count(last[v].log, "disconnect") = 1)
      /\ last[v].op = "enter" =>
           (Count(last[v].log, "connect") = 1 /\
            (blk[v].st = "in" <=> last[v].exc = NoExc))

\* both blocks were left by an exception of the body
C3_Witness ==
    \A v \in Variants : blk[v].st = "exited" /\ blk[v].raised /\ last[v].op = "exit"

\* C4: in the blocking variant every transactional scope execute() opens
\* is closed exactly once, on exhaustion, on an early stop and on an error
\* while streaming; no scope is open once the generator has ended.
C4_SyncScopeClosedOnce ==
    LET g == gen["sync"]
    IN  /\ g.begins <= 1
        /\ g.ends <= g.begins
        /\ g.st = "suspended" => (g.scope = "open" /\ g.begins = 1 /\ g.ends = 0)
        /\ g.st = "done" => (g.scope # "open" /\ g.ends = g.begins /\ g.cursor # "open")

\* the consumer stopped before the last row of a running generator
C4_Witness ==
    LET g == gen["sync"]
    IN  g.st = "done" /\ g.how = "closed" /\ g.begins = 1 /\ g.pos < Len(g.rows)

\* an error was raised while the rows were streamed, after a first row
C4_WitnessError ==
    LET g == gen["sync"]
    IN  g.st = "done" /\ g.how = "error" /\ g.begins = 1 /\ g.pos = 1

\* C5: in both variants a fully consumed execute(query) on a connected
\* instance yields exactly the rows of the database's result, each once and
\* in the result's order, and the two variants yield the same sequence.
C5_ExecuteYieldsResultInOrder ==
    /\ \A v \in Variants :
         LET g == gen[v]
         IN  /\ Len(g.out) <= Len(g.rows)
             /\ g.out = SubSeq(g.rows, 1, Len(g.out))
             /\ g.how = "exhausted" => (g.out = g.rows /\ g.begins = 1)
             /\ (g.how = "error" /\ g.fault.in = "none" /\ ~g.table) => g.begins = 0
             /\ (last[v].op = "next" /\ last[v].row # <<>>) =>
                  last[v].row = g.rows[Len(g.out)]
    /\ (gen["sync"].how = "exhausted" /\ gen["async"].how = "exhausted") =>
         gen["sync"].out = gen["async"].out

\* both variants have streamed a one-row result to its end
C5_Witness ==
    \A v \in Variants :
      gen[v].how = "exhausted" /\ Len(gen[v].rows) = 1 /\ gen[v].out = <<Row(1)>>

\* both variants have yielded the two rows of a result in order
C5_WitnessOrder ==
    \A v \in Variants :
      gen[v].st = "suspended" /\ Len(gen[v].rows) = 2 /\ gen[v].out = <<Row(1), Row(2)>>

\* the instance holds a session object, and one that connect() made is
\* bound to an engine the instance created
Connected(s) ==
    /\ s.session.kind = "Session"
    /\ s.session.id \in 1..Len(s.sessions)
    /\ s.sessions[s.session.id].by = "connect" =>
         s.sessions[s.session.id].engine \in 1..Len(s.engines)

Outcome(l) == [op |-> l.op, raised |-> l.exc # NoExc, cls |-> l.exc.cls]

\* the session of an instance: absent, present, or closed
SessionState(s) ==
    IF s.session.kind # "Session" THEN "absent"
    ELSE IF s.sessions[s.session.id].closes > 0 THEN "closed" ELSE "present"

\* the engine of an instance: absent, present, or disposed
EngineState(s) ==
    IF s.engine.kind # "Engine" THEN "absent"
    ELSE IF s.engines[s.engine.id].disposals > 0 THEN "disposed" ELSE "present"

\* C7: the two variants behave alike: after the same calls each call has
\* the same outcome in both (returned or raised, and the class raised) and
\* leaves the same state of the session and of the engine.
C7_VariantsBehaveAlike ==
    /\ Outcome(last["sync"]) = Outcome(last["async"])
    /\ SessionState(inst["sync"]) = SessionState(inst["async"])
    /\ EngineState(inst["sync"]) = EngineState(inst["async"])

\* the last call was a connect() that did not return the stored session
Attempted(v) == last[v].op = "connect" /\ (last[v].force \/ ~HadSession(v))

\* the sessions made during the last call
MadeSessions(v) == (last[v].pre.nsessions + 1)..Len(inst[v].sessions)

\* C8: in the blocking variant, when the database layer fails at engine
\* creation, schema creation or session creation, connect() raises the
\* connection error with the original database error as its cause, and no
\* session made during the attempt is left open.
C8_SyncConnectFailureCarriesCause ==
    Attempted("sync") =>
      LET l == last["sync"]
          cls == DbErrorOf(l.log)
      IN  /\ cls = "none" => (l.exc = NoExc /\ l.ret = inst["sync"].session)
          /\ cls # "none" =>
               /\ l.exc.cls = cls
               /\ IsSQLAlchemyError(l.exc)
               /\ l.exc.cause = "db"
               /\ \A i \in MadeSessions("sync") : inst["sync"].sessions[i].closes >= 1

\* a forced connect() of the blocking variant failed after its engine was made
C8_Witness ==
    /\ Attempted("sync") /\ last["sync"].force /\ HadSession("sync")
    /\ DbErrorOf(last["sync"].log) # "none"
    /\ Count(last["sync"].log, "create_engine") = 1

\* C9: in both variants construction succeeds when the url scheme is sqlite
\* or postgresql in any letter case (the session argument not being True),
\* creating no engine and making no call on the database layer, and fails
\* with a ValueError that names the scheme for every other scheme.
C9_ConstructionByScheme ==
    \A v \in Variants :
      last[v].op = "init" =>
        LET l == last[v]
            accepted == \E s \in {SQLITE, POSTGRESQL} : UrlScheme(l.url) = Lower(s)
        IN  /\ (accepted /\ l.session # "True") =>
                 /\ l.exc = NoExc
                 /\ inst[v].state = "ok"
                 /\ inst[v].engine.kind # "Engine"
                 /\ inst[v].engines = <<>>
                 /\ l.log = <<>>
            /\ ~accepted =>
                 /\ inst[v].state = "failed"
                 /\ l.exc.cls = "ValueError"
                 /\ l.exc.about = "scheme"
                 /\ l.exc.scheme = UrlScheme(l.url)

\* a url whose scheme is written in upper case was accepted by both
C9_Witness ==
    \A v \in Variants :
      /\ last[v].op = "init" /\ last[v].exc = NoExc
      /\ last[v].url = <<"P", "o", "s", "t", "g", "r", "e", "S", "Q", "L", ":", "/", "/", "h">>

\* a url of another scheme was rejected by both
C9_WitnessRejected ==
    \A v \in Variants :
      /\ last[v].op = "init" /\ last[v].exc.about = "scheme"
      /\ last[v].exc.scheme = <<"m", "y", "s", "q", "l">>

\* the step of the last connect() at which the database layer failed
FailedStep(v) ==
    LET log == last[v].log
        prev == IF ErrorIndex(log) > 1 THEN log[ErrorIndex(log) - 1].ev ELSE "none"
    IN  IF DbErrorOf(log) = "none" THEN "none"
        ELSE IF prev = "none" THEN "engine"
        ELSE IF prev = "create_engine" /\ inst[v].create_tables THEN "schema"
        ELSE "session"

\* C10 as stated: in the non-blocking connect() every failure of the schema
\* step is raised as a RuntimeError, every database failure elsewhere as the
\* generic connection error, and both carry the original error as cause.
C10_SchemaFailureIsRuntimeError ==
    Attempted("async") =>
      LET e == last["async"].exc
          step == FailedStep("async")
      IN  /\ step = "schema" => (e.cls = "RuntimeError" /\ e.cause = "db")
          /\ step \notin {"none", "schema"} => (IsSQLAlchemyError(e) /\ e.cause = "db")

\* C10 as amended: an OperationalError of the schema step is raised as a new
\* RuntimeError chained to it; every other database error raised inside the
\* try block of connect(), another class at the schema step included, is
\* re-raised as the generic connection error with the original error as its
\* cause; the RuntimeError is never of the generic class.
C10_OperationalSchemaFailureIsRuntimeError ==
    Attempted("async") =>
      LET e == last["async"].exc
          step == FailedStep("async")
          cls == DbErrorOf(last["async"].log)
      IN  /\ step = "none" => e = NoExc
          /\ (step = "schema" /\ cls = "OperationalError") =>
               (e.cls = "RuntimeError" /\ e.id = "new" /\ e.cause = "db" /\
                ~IsSQLAlchemyError(e))
          /\ (step = "schema" /\ cls # "OperationalError") =>
               (e.cls = cls /\ e.id = "db" /\ e.cause = "db" /\ IsSQLAlchemyError(e))
          /\ step \in {"engine", "session"} =>
               (e.cls = cls /\ e.id = "db" /\ e.cause = "db" /\ IsSQLAlchemyError(e))

\* the schema step of the non-blocking connect() failed with an
\* OperationalError
C10_Witness ==
    /\ Attempted("async")
    /\ FailedStep("async") = "schema"
    /\ DbErrorOf(last["async"].log) = "OperationalError"

\* a handle is absent when the attribute holds False or None
Absent(val) == val.kind \in {"False", "None"}

\* C15: in both variants disconnect() releases the session before the
\* engine when both are present, and skips each of the two releases on its
\* own when its handle is absent.
C15_DisconnectSessionThenEngine ==
    \A v \in Variants :
      last[v].op = "disconnect" =>
        LET l == last[v]
            closing == IF Absent(l.pre.session) THEN <<>>
                       ELSE <<Ev("close", l.pre.session.id)>>
            disposing == IF Absent(l.pre.engine) THEN <<>>
                         ELSE <<Ev("dispose", l.pre.engine.id)>>
        IN  l.exc = NoExc /\ l.log = closing \o disposing

\* the engines an instance created that have not been disposed
LiveEngines(s) == {i \in 1..Len(s.engines) : s.engines[i].disposals = 0}

\* the sessions an instance created that have not been closed
LiveSessions(s) ==
    {i \in 1..Len(s.sessions) : s.sessions[i].by = "connect" /\ s.sessions[i].closes = 0}

\* C17: in both variants, whenever connect() has returned a session handle,
\* new, existing, or supplied by the caller at construction, the instance
\* holds an engine handle on which execute() can open its scope.
C17_ConnectedHasEngine ==
    \A v \in Variants :
      (last[v].op = "connect" /\ last[v].exc = NoExc /\ last[v].ret.kind = "Session") =>
        inst[v].engine.kind = "Engine"

\* C18: in both variants, after disconnect() has returned, every engine and
\* every session the instance created has been disposed or closed, whatever
\* connect() calls came before.
C18_DisconnectReleasesAll ==
    \A v \in Variants :
      (last[v].op = "disconnect" /\ last[v].exc = NoExc) =>
        (LiveEngines(inst[v]) = {} /\ LiveSessions(inst[v]) = {})

\* C19: in both variants, after connect() and then disconnect(), a further
\* connect() without force creates a new engine and returns a session that
\* is not closed.
C19_ReconnectAfterDisconnect ==
    \A v \in Variants :
      ( /\ last[v].op = "connect" /\ ~last[v].force /\ last[v].exc = NoExc
        /\ last[v].pre.session.kind = "Session"
        /\ last[v].pre.engine.kind = "Engine"
        /\ inst[v].engines[last[v].pre.engine.id].disposals > 0 ) =>
        /\ Len(inst[v].engines) = last[v].pre.nengines + 1
        /\ inst[v].sessions[last[v].ret.id].closes = 0

\* C20: in both variants disconnect() closes the session the instance
\* stores whoever made it: a session the caller supplied at construction is
\* closed as one that connect() created is.
C20_DisconnectClosesAnySession ==
    \A v \in Variants :
      (last[v].op = "disconnect" /\ last[v].pre.session.kind = "Session") =>
        /\ Len(last[v].log) >= 1
        /\ last[v].log[1] = Ev("close", last[v].pre.session.id)
        /\ inst[v].session = last[v].pre.session
        /\ inst[v].sessions[inst[v].session.id].closes >= 1

\* disconnect() has closed a session the caller supplied, in both variants
C20_Witness ==
    \A v \in Variants :
      /\ last[v].op = "disconnect"
      /\ last[v].pre.session.kind = "Session"
      /\ inst[v].sessions[last[v].pre.session.id].by = "caller"
      /\ inst[v].sessions[last[v].pre.session.id].closes = 1

\* disconnect() has closed a session that connect() created, in both variants
C20_WitnessCreated ==
    \A v \in Variants :
      /\ last[v].op = "disconnect"
      /\ last[v].pre.session.kind = "Session"
      /\ inst[v].sessions[last[v].pre.session.id].by = "connect"

\* the url with the async driver added to its scheme: the scheme and driver
\* of the prefix, then everything of the url from its first colon on
WithDriver(prefix, url) ==
    SubSeq(prefix, 1, Len(prefix) - 3) \o Slice(url, FindColon(url) - 1)

\* C14: the non-blocking variant stores every accepted url as the same url
\* with the async driver added to the scheme, postgresql+asyncpg or
\* sqlite+aiosqlite, and everything after the scheme unchanged.
C14_AsyncUrlRewrite ==
    (last["async"].op = "init" /\ last["async"].exc = NoExc) =>
        LET url == last["async"].url
        IN  inst["async"].url =
                IF UrlScheme(url) = POSTGRESQL
                THEN WithDriver(ASYNCPG_PREFIX, url)
                ELSE WithDriver(AIOSQLITE_PREFIX, url)

\* C14, for the urls written scheme://rest: the stored url is the prefix
\* with the driver followed by rest
C14_AsyncUrlRewriteOfSlashed ==
    ( /\ last["async"].op = "init" /\ last["async"].exc = NoExc
      /\ Len(last["async"].url) >= FindColon(last["async"].url) + 2
      /\ SubSeq(last["async"].url, FindColon(last["async"].url),
                FindColon(last["async"].url) + 2) = <<":", "/", "/">> ) =>
        LET url == last["async"].url
        IN  inst["async"].url =
                IF UrlScheme(url) = POSTGRESQL
                THEN WithDriver(ASYNCPG_PREFIX, url)
                ELSE WithDriver(AIOSQLITE_PREFIX, url)

\* connect() has run to its end on the engine the instance holds, and that
\* engine has not been disposed since
HoldsConnectedEngine(s) ==
    /\ s.engine.kind = "Engine"
    /\ s.engines[s.engine.id].disposals = 0
    /\ \E i \in 1..Len(s.sessions) :
         s.sessions[i].by = "connect" /\ s.sessions[i].engine = s.engine.id

\* a connect() of the instance has succeeded: it has made its session,
\* the last thing it does
HasConnected(v) ==
    \E i \in 1..Len(inst[v].sessions) : inst[v].sessions[i].by = "connect"

\* a step of an execute() of a query on a table of the schema, the
\* database layer not failing
TableQueryStarted(v) ==
    /\ inst[v].create_tables /\ InMemory(inst[v])
    /\ last[v].op = "next"
    /\ gen[v].table /\ gen[v].fault.in = "none"

\* C12 as stated: with create_tables on the in-memory database, once a
\* connect() has succeeded every later execute() of a query on a table of
\* the schema succeeds.
C12_TablesSeenAfterConnect ==
    \A v \in Variants :
      (TableQueryStarted(v) /\ HasConnected(v)) => last[v].exc = NoExc

\* C12: with create_tables on the in-memory database, an execute() of a
\* query on a table of the schema succeeds while the instance holds the
\* engine on which a connect() ran to its end and that engine has not been
\* disposed.
C12_TablesSeenOnConnectedEngine ==
    \A v \in Variants :
      (TableQueryStarted(v) /\ HoldsConnectedEngine(inst[v])) =>
        /\ last[v].exc = NoExc
        /\ gen[v].begins = 1

\* both variants have yielded a row of a table that connect() created
C12_Witness ==
    \A v \in Variants :
      /\ TableQueryStarted(v) /\ HoldsConnectedEngine(inst[v])
      /\ last[v].exc = NoExc /\ last[v].row = Row(1)

\* a step of an execute() on the blocking instance after its with block
\* has exited, for a query that reads no table, the database not failing
StepAfterBlock ==
    /\ blk["sync"].st = "exited"
    /\ last["sync"].op = "next"
    /\ gen["sync"].fault.in = "none" /\ ~gen["sync"].table

\* C13: in the blocking variant the with block binds the instance itself,
\* and execute() on it after the block has exited, disconnect() having
\* run, raises nothing and yields the rows of the query.
C13_ExecuteAfterBlockExit ==
    /\ (last["sync"].op = "enter" /\ last["sync"].exc = NoExc) =>
         last["sync"].ret = VSelf("sync")
    /\ StepAfterBlock =>
         /\ last["sync"].exc = NoExc
         /\ gen["sync"].out = SubSeq(gen["sync"].rows, 1, Len(gen["sync"].out))
         /\ gen["sync"].st = "done" => gen["sync"].out = gen["sync"].rows

\* C13, for an instance whose connect() created the engine: execute()
\* after the block works on the disposed engine
C13_ExecuteAfterBlockExitOnOwnEngine ==
    (StepAfterBlock /\ inst["sync"].engine.kind = "Engine") =>
        /\ inst["sync"].engines[inst["sync"].engine.id].disposals >= 1
        /\ last["sync"].exc = NoExc
        /\ gen["sync"].out = SubSeq(gen["sync"].rows, 1, Len(gen["sync"].out))
        /\ gen["sync"].st = "done" => gen["sync"].out = gen["sync"].rows

\* at most one engine and at most one session of the instance are live
AtMostOneLive(s) ==
    Cardinality(LiveEngines(s)) <= 1 /\ Cardinality(LiveSessions(s)) <= 1

\* C16: on an instance whose connect() is never called with force, in every
\* reachable state at most one session and at most one engine that the
\* instance created are live, also when the connect() calls of two tasks
\* interleave at connect()'s awaits. The tasks never force.
C16_AtMostOneLive == AtMostOneLive(inst["async"])

\* C16, for calls made one after the other on both variants: no call other
\* than a forced connect() takes an instance from at most one live engine
\* and session to more than one.
C16_AtMostOneLiveUnlessForced ==
    [][\A v \in Variants :
         (AtMostOneLive(inst[v]) /\ ~(last'[v].op = "connect" /\ last'[v].force)) =>
            AtMostOneLive(inst'[v])]_vars

\* the task is over
Ended(k) == k.pc \in {"done", "failed", "cancelled"}

C11_WitnessEntryExit ==
    /\ task["t1"].pc = "cancelled" /\ task["t1"].at = "entering"
    /\ task["t2"].pc = "cancelled" /\ task["t2"].at = "exiting"

====
